---------------------------- MODULE Spec2Model ----------------------------
(***************************************************************************)
(* State-machine model of the shapefile ingestion service:                 *)
(*   - POST /api/shapefile/upload   (multer + handler, transactional)      *)
(*   - PUT /api/shapefile/:id, DELETE /api/shapefile/:id                   *)
(*   - GET /api/shapefile (paginated listing, two queries)                 *)
(*   - POST /api/export/gee, POST /api/satellite/process-image             *)
(* The shapefiles table is the variable store: the set of COMMITTED rows,  *)
(* which is what any other connection reads (PostgreSQL READ COMMITTED).   *)
(* An open upload transaction keeps its own deletions and insertions in    *)
(* its request record until COMMIT.  Every await of a handler is one       *)
(* action; handlers of different requests interleave at awaits.            *)
(***************************************************************************)
EXTENDS Integers, Sequences, FiniteSets, TLC

(***************************************************************************)
(* Bounds of the model.                                                    *)
(***************************************************************************)
\* records of one uploaded dataset
MaxRecords == 2
\* transactions / statements that read NOW() (the logical clock's range)
MaxTx == 3
\* values the SERIAL id sequence may hand out
MaxId == 3

\* the upload requests that may be in flight at the same time
Req == {1, 2}

(***************************************************************************)
(* Values.                                                                 *)
(***************************************************************************)
\* JS null / SQL NULL for a geometry or a bbox (geometries are non-empty)
Null == <<>>
\* JS null / SQL NULL JSONB versus a JSON object given by its key/value pairs
NullJson == [isNull |-> TRUE, kv |-> {}]
Obj(kv) == [isNull |-> FALSE, kv |-> kv]

\* dataset (original .shp file) names
Names == {"a.shp", "b.shp"}
\* a point geometry and a two-vertex line, as coordinate sequences
GeomPoint == << <<1, 1>> >>
GeomLine == << <<0, 2>>, <<3, 1>> >>
PropsA == Obj({<<"k", "v">>})

\* the records a dataset may hold: one without geometry, two with
RecordKinds ==
  { [geometry |-> Null, properties |-> PropsA],
    [geometry |-> GeomPoint, properties |-> NullJson],
    [geometry |-> GeomLine, properties |-> PropsA] }

SeqsUpTo(S, n) == UNION { [1..k -> S] : k \in 0..n }
Datasets == SeqsUpTo(RecordKinds, MaxRecords)

\* the multipart bodies tried: the original file names' extensions, in order
FileLists ==
  { <<".shp", ".shx">>,
    <<".shp", ".shx", ".dbf">>,
    <<".shp", ".shx", ".prj">>,
    <<".shx", ".dbf", ".prj">>,
    <<".shp", ".shx", ".txt">> }

Range(s) == { s[k] : k \in 1..Len(s) }
Min(S) == CHOOSE x \in S : \A y \in S : x <= y
Max(S) == CHOOSE x \in S : \A y \in S : x >= y

(***************************************************************************)
(* Pure functions of the code and of the SQL it issues.                    *)
(***************************************************************************)
\* JSON.stringify(feature.geometry): the GeoJSON text of a geometry
GeoJsonText(g) == <<"geojson", g>>
\* ST_GeomFromGeoJSON($1)
ST_GeomFromGeoJSON(t) == t[2]
\* ST_Envelope(geom): <<xmin, ymin, xmax, ymax>>
ST_Envelope(g) ==
  LET xs == { g[k][1] : k \in 1..Len(g) }
      ys == { g[k][2] : k \in 1..Len(g) }
  IN  <<Min(xs), Min(ys), Max(xs), Max(ys)>>
\* feature.properties ? JSON.stringify(feature.properties) : null, stored as JSONB
MetadataOf(p) == IF p.isNull THEN NullJson ELSE Obj(p.kv)
\* the while loop of the reader: keep the records whose geometry is truthy
RECURSIVE ReadFeatures(_)
ReadFeatures(recs) ==
  IF recs = <<>> THEN <<>>
  ELSE IF Head(recs).geometry # Null
       THEN <<Head(recs)>> \o ReadFeatures(Tail(recs))
       ELSE ReadFeatures(Tail(recs))
\* fileFilter: the extension is one of the four valid ones
ValidExtensions == {".shp", ".shx", ".dbf", ".prj"}
FileFilterOk(fs) == \A k \in 1..Len(fs) : fs[k] \in ValidExtensions
\* req.files.find(f => f.originalname.toLowerCase().endsWith('.shp'))
HasShp(fs) == \E k \in 1..Len(fs) : fs[k] = ".shp"

VARIABLES
  store,   \* committed rows of table shapefiles
  nextId,  \* next value of the SERIAL sequence of shapefiles.id
  clock,   \* last value NOW() returned (one tick per transaction start)
  disk,    \* files in uploads/: <<request, index>>
  up,      \* per upload request: the handler's locals and its transaction;
           \* records (the dataset read), before (the rows of its name at
           \* BEGIN), overlap and renamed are history kept for the properties
  last,    \* the last response of PUT /:id or DELETE /:id: [op, status]
  ls,      \* the GET / (list) request: its position, inputs and response
  api      \* the POST /gee or POST /process-image request in flight

vars == <<store, nextId, clock, disk, up, last, ls, api>>

IdleUp ==
  [pc |-> "idle", files |-> <<>>, name |-> "", records |-> <<>>,
   features |-> <<>>, i |-> 1, txid |-> 0, before |-> {},
   snap |-> {}, deleted |-> {}, pending |-> <<>>, failed |-> FALSE,
   status |-> 0, count |-> 0, overlap |-> FALSE, renamed |-> FALSE]

\* no listing yet: nothing asked, nothing returned
IdleList ==
  [pc |-> "idle", page |-> 0, limit |-> 0, seen |-> {}, items |-> <<>>,
   status |-> 0, total |-> 0, totalPages |-> 0]
\* no export or processing request yet
IdleApi ==
  [ep |-> "none", pc |-> "idle", type |-> "", id |-> 0, thrown |-> FALSE,
   responses |-> 0, status |-> 0]

Init ==
  /\ store = {}
  /\ nextId = 1
  /\ clock = 0
  /\ disk = {}
  /\ up = [r \in Req |-> IdleUp]
  /\ last = [op |-> "none", status |-> 0]
  /\ ls = IdleList
  /\ api = IdleApi

\* the request is being handled (received, not yet answered)
Active(r) == up[r].pc \notin {"idle", "done"}
\* the request's transaction is open and has run its DELETE
HoldsLocks(r) == up[r].pc \in {"insert", "commit", "rollback"}
\* ids of the rows an open transaction has deleted: their row locks
LocksOf(Q) == { row.id : row \in UNION { up[q].deleted : q \in { q \in Q : HoldsLocks(q) } } }
LockedByOther(r) == LocksOf(Req \ {r})
LockedIds == LocksOf(Req)
NamedRows(S, n) == { row \in S : row.name = n }
FilesOf(r) == { <<r, k>> : k \in 1..Len(up[r].files) }

(***************************************************************************)
(* POST /upload.  An action is the code a request runs between two         *)
(* statements that touch the table: Node runs it without interleaving.     *)
(***************************************************************************)
\* the request's record when the handler has answered: the locals of the
\* try block are gone, what was sent and what the transaction did stay
Answered(u, st) ==
  [u EXCEPT !.pc = "done", !.status = st, !.features = <<>>,
            !.pending = <<>>, !.snap = {}]

\* multer (fileFilter, diskStorage; a rejected file ends the request in
\* handleMulterError with nothing kept), then the handler's file checks:
\* fewer than three files, or no .shp among them, is answered 400
Receive(r, fs, nm) ==
  /\ up[r].pc = "idle"
  /\ \A q \in Req : q < r => up[q].pc # "idle"
  /\ IF ~FileFilterOk(fs)
     THEN /\ disk' = disk
          /\ up' = [up EXCEPT ![r] = Answered([@ EXCEPT !.files = fs], 400)]
     ELSE /\ disk' = disk \cup { <<r, k>> : k \in 1..Len(fs) }
          /\ IF Len(fs) < 3 \/ ~HasShp(fs)
             THEN up' = [up EXCEPT ![r] = Answered([@ EXCEPT !.files = fs], 400)]
             ELSE up' = [q \in Req |->
                           IF q = r
                           THEN [up[r] EXCEPT !.pc = "parse", !.files = fs, !.name = nm,
                                              !.overlap = \E o \in Req \ {r} :
                                                            Active(o) /\ up[o].name = nm]
                           ELSE IF Active(q) /\ up[q].name = nm
                                THEN [up[q] EXCEPT !.overlap = TRUE]
                                ELSE up[q]]
  /\ UNCHANGED <<store, nextId, clock, last, ls, api>>

\* shapefile.open / source.read throws: the outer catch answers 500
ParseFail(r) ==
  /\ up[r].pc = "parse"
  /\ up' = [up EXCEPT ![r] = Answered(@, 500)]
  /\ UNCHANGED <<store, nextId, clock, disk, last, ls, api>>

\* the dataset is read to its end; no feature kept is answered 400
Parse(r, recs) ==
  /\ up[r].pc = "parse"
  /\ LET fe == ReadFeatures(recs)
     IN  IF Len(fe) = 0
         THEN up' = [up EXCEPT ![r] = Answered([@ EXCEPT !.records = recs], 400)]
         ELSE up' = [up EXCEPT ![r].pc = "begin", ![r].records = recs,
                               ![r].features = fe]
  /\ UNCHANGED <<store, nextId, clock, disk, last, ls, api>>

\* pool.connect() rejects: the outer catch answers 500
ConnectFail(r) ==
  /\ up[r].pc = "begin"
  /\ up' = [up EXCEPT ![r] = Answered(@, 500)]
  /\ UNCHANGED <<store, nextId, clock, disk, last, ls, api>>

\* pool.connect(), then BEGIN: the transaction's NOW() is fixed here
Begin(r) ==
  /\ up[r].pc = "begin"
  /\ clock < MaxTx
  /\ clock' = clock + 1
  /\ up' = [up EXCEPT ![r].pc = "delete", ![r].txid = clock + 1,
                      ![r].before = NamedRows(store, up[r].name)]
  /\ UNCHANGED <<store, nextId, disk, last, ls, api>>

\* faulty variant: the DELETE is given another name and removes nothing
DeleteTargetsNone(r, ids) == {}

\* the rows DELETE ... WHERE name = $1 removes among those with their id in ids
DeleteTargets(r, ids) == { row \in NamedRows(store, up[r].name) : row.id \in ids }

\* DELETE FROM shapefiles WHERE name = $1: it sees the committed rows and
\* waits for those another open transaction has deleted
Delete(r) ==
  /\ up[r].pc = "delete"
  /\ LET ids == { row.id : row \in NamedRows(store, up[r].name) }
     IN  IF ids \cap LockedByOther(r) = {}
         THEN up' = [up EXCEPT ![r].pc = "insert", ![r].snap = ids,
                               ![r].deleted = DeleteTargets(r, ids)]
         ELSE up' = [up EXCEPT ![r].pc = "deleteWait", ![r].snap = ids]
  /\ UNCHANGED <<store, nextId, clock, disk, last, ls, api>>

\* the waiting DELETE goes on once the locks are gone: it removes the rows
\* of its snapshot that still exist and still match
DeleteResume(r) ==
  /\ up[r].pc = "deleteWait"
  /\ up[r].snap \cap LockedByOther(r) = {}
  /\ up' = [up EXCEPT ![r].pc = "insert",
                      ![r].deleted = DeleteTargets(r, up[r].snap)]
  /\ UNCHANGED <<store, nextId, clock, disk, last, ls, api>>

\* faulty variant: the INSERT leaves bbox out
NewRowNoBbox(r) ==
  LET feature == up[r].features[up[r].i]
  IN  [id |-> nextId,
       name |-> up[r].name,
       geom |-> ST_GeomFromGeoJSON(GeoJsonText(feature.geometry)),
       metadata |-> MetadataOf(feature.properties),
       bbox |-> Null,
       created_at |-> up[r].txid,
       updated_at |-> up[r].txid]

\* the row the loop body makes of features[i]: the envelope SELECT, then
\* INSERT INTO shapefiles (name, geom, metadata, bbox)
NewRow(r) ==
  LET feature == up[r].features[up[r].i]
      geom == GeoJsonText(feature.geometry)
      bbox == ST_Envelope(ST_GeomFromGeoJSON(geom))
  IN  [id |-> nextId,
       name |-> up[r].name,
       geom |-> ST_GeomFromGeoJSON(geom),
       metadata |-> MetadataOf(feature.properties),
       bbox |-> bbox,
       created_at |-> up[r].txid,
       updated_at |-> up[r].txid]

\* faulty variant: the INSERT goes to the pool, outside the transaction: the row
\* is committed at once
InsertOnPool(r) ==
  /\ up[r].pc = "insert"
  /\ nextId <= MaxId
  /\ nextId' = nextId + 1
  /\ store' = store \cup {[id |-> nextId, name |-> up[r].name,
                            geom |-> up[r].features[up[r].i].geometry,
                            metadata |-> MetadataOf(up[r].features[up[r].i].properties),
                            bbox |-> ST_Envelope(up[r].features[up[r].i].geometry),
                            created_at |-> up[r].txid, updated_at |-> up[r].txid]}
  /\ up' = [up EXCEPT ![r].i = @ + 1,
                      ![r].pc = IF up[r].i = Len(up[r].features)
                                THEN "commit" ELSE "insert"]
  /\ UNCHANGED <<clock, disk, last, ls, api>>

\* one turn of the for loop
Insert(r) ==
  /\ up[r].pc = "insert"
  /\ nextId <= MaxId
  /\ nextId' = nextId + 1
  /\ up' = [up EXCEPT ![r].pending = Append(@, NewRow(r)),
                      ![r].i = @ + 1,
                      ![r].pc = IF up[r].i = Len(up[r].features)
                                THEN "commit" ELSE "insert"]
  /\ UNCHANGED <<store, clock, disk, last, ls, api>>

\* faulty variant: the DELETE is lost: COMMIT adds the rows and removes none
CommittedInsertsOnly(r) == store \cup Range(up[r].pending)

\* what COMMIT makes of the table
Committed(r) == (store \ up[r].deleted) \cup Range(up[r].pending)

\* COMMIT, res.status(201).json({success, count, name}), then finally:
\* client.release() and unlinkSync of every req.files entry
Commit(r) ==
  /\ up[r].pc = "commit"
  /\ store' = Committed(r)
  /\ disk' = disk \ FilesOf(r)
  /\ up' = [up EXCEPT ![r] = [Answered(@, 201) EXCEPT !.count = Len(up[r].features)]]
  /\ UNCHANGED <<nextId, clock, last, ls, api>>

\* a statement of the transaction (BEGIN, the DELETE, an envelope SELECT,
\* an INSERT, COMMIT) rejects: control goes to catch (dbError)
DbFail(r) ==
  /\ up[r].pc \in {"begin", "delete", "deleteWait", "insert", "commit"}
  /\ up' = [up EXCEPT ![r].pc = "rollback", ![r].failed = TRUE]
  /\ UNCHANGED <<store, nextId, clock, disk, last, ls, api>>

\* faulty variant: the catch block commits what the transaction did so far
RollbackCommits(r) ==
  /\ up[r].pc = "rollback"
  /\ store' = (store \ up[r].deleted) \cup Range(up[r].pending)
  /\ disk' = disk \ FilesOf(r)
  /\ up' = [up EXCEPT ![r] = Answered(@, 500)]
  /\ UNCHANGED <<nextId, clock, last, ls, api>>

\* ROLLBACK and throw dbError; finally (release, unlinkSync of the files);
\* the outer catch answers 500
Rollback(r) ==
  /\ up[r].pc = "rollback"
  /\ disk' = disk \ FilesOf(r)
  /\ up' = [up EXCEPT ![r] = [Answered(@, 500) EXCEPT !.deleted = {}]]
  /\ UNCHANGED <<store, nextId, clock, last, ls, api>>

\* the request is over; the slot takes the next request
Close(r) ==
  /\ up[r].pc = "done"
  /\ up' = [up EXCEPT ![r] = IdleUp]
  /\ UNCHANGED <<store, nextId, clock, disk, last, ls, api>>

\* the steps of the handler once the dataset is read
HandlerStep(r) ==
  \/ Begin(r)
  \/ Delete(r)
  \/ Insert(r)
  \/ Commit(r)
  \/ DbFail(r)
  \/ Rollback(r)

(***************************************************************************)
(* PUT /:id and DELETE /:id: one statement each, on the pool               *)
(***************************************************************************)
\* req.body.name: absent, the empty string, or a name
PutNames == {"", "a.shp", "b.shp"}
\* req.body.metadata: absent (null) or a JSON object
PropsPut == Obj({<<"k", "put">>})
PutMetas == {NullJson, Obj({}), PropsPut}
\* JS truthiness of the two body fields
TruthyName(nm) == nm # ""
TruthyMeta(md) == ~md.isNull

\* faulty variant: the UPDATE leaves updated_at as it was
UpdatedRowStale(row, nm, md, now) ==
  [row EXCEPT !.name = IF TruthyName(nm) THEN nm ELSE @,
              !.metadata = IF TruthyMeta(md) THEN Obj(md.kv) ELSE @]

\* UPDATE shapefiles SET <name = $n>, <metadata = $m>, updated_at = NOW()
UpdatedRow(row, nm, md, now) ==
  [row EXCEPT !.name = IF TruthyName(nm) THEN nm ELSE @,
              !.metadata = IF TruthyMeta(md) THEN Obj(md.kv) ELSE @,
              !.updated_at = now]

\* an upload whose transaction has run its DELETE by name nm and not ended
InDeleteWindow(q, nm) ==
  /\ up[q].pc \in {"deleteWait", "insert", "commit"}
  /\ up[q].name = nm

Put(id, nm, md) ==
  /\ id \notin LockedIds
  /\ IF ~TruthyName(nm) /\ ~TruthyMeta(md)
     THEN /\ last' = [op |-> "put", status |-> 400]
          /\ UNCHANGED <<store, clock, up>>
     ELSE IF \E row \in store : row.id = id
          THEN /\ clock < MaxTx
               /\ clock' = clock + 1
               /\ store' = { IF row.id = id THEN UpdatedRow(row, nm, md, clock + 1)
                                            ELSE row : row \in store }
               /\ up' = [q \in Req |->
                           IF TruthyName(nm) /\ InDeleteWindow(q, nm)
                           THEN [up[q] EXCEPT !.renamed = TRUE] ELSE up[q]]
               /\ last' = [op |-> "put", status |-> 200]
          ELSE /\ last' = [op |-> "put", status |-> 404]
               /\ UNCHANGED <<store, clock, up>>
  /\ UNCHANGED <<nextId, disk, ls, api>>

\* pool.query rejects: 500
PutFail ==
  /\ last' = [op |-> "put", status |-> 500]
  /\ UNCHANGED <<store, nextId, clock, disk, up, ls, api>>

\* DELETE FROM shapefiles WHERE id = $1: 204, or 404 when no row matched
DeleteById(id) ==
  /\ id \notin LockedIds
  /\ IF \E row \in store : row.id = id
     THEN /\ store' = { row \in store : row.id # id }
          /\ last' = [op |-> "delete", status |-> 204]
     ELSE /\ store' = store
          /\ last' = [op |-> "delete", status |-> 404]
  /\ UNCHANGED <<nextId, clock, disk, up, ls, api>>

(***************************************************************************)
(* GET / (list): two statements on the pool, the page and then the count   *)
(***************************************************************************)
\* req.query.page and req.query.limit: positive integers up to these
MaxPage == 2
MaxLimit == 2

\* ST_AsGeoJSON(geom)
ST_AsGeoJSON(g) == GeoJsonText(g)
\* the columns the listing selects
ListItem(row) ==
  [id |-> row.id, name |-> row.name, geometry |-> ST_AsGeoJSON(row.geom),
   created_at |-> row.created_at, updated_at |-> row.updated_at]
\* ORDER BY created_at DESC: every order of the rows the sort may give
\* (rows of one creation time come in any order)
Newest(S) == { x \in S : \A y \in S : x.created_at >= y.created_at }
RECURSIVE DescOrders(_)
DescOrders(S) ==
  IF S = {} THEN { <<>> }
  ELSE UNION { { <<x>> \o t : t \in DescOrders(S \ {x}) } : x \in Newest(S) }
\* faulty variant: the page is always taken from the first row
WindowNoOffset(s, limit, offset) == SubSeq(s, 1, Min({Len(s), limit}))
\* LIMIT $1 OFFSET $2
Window(s, limit, offset) == SubSeq(s, offset + 1, Min({Len(s), offset + limit}))
\* Math.ceil(count / limit)
MathCeil(count, limit) ==
  IF count % limit = 0 THEN count \div limit ELSE (count \div limit) + 1

\* offset = (page - 1) * limit, then SELECT ... ORDER BY created_at DESC
\* LIMIT $1 OFFSET $2
ListSelect(page, limit) ==
  /\ ls.pc = "idle"
  /\ \E s \in DescOrders(store) :
       LET rows == Window(s, limit, (page - 1) * limit)
       IN  ls' = [IdleList EXCEPT !.pc = "count", !.page = page, !.limit = limit,
                                  !.seen = store,
                                  !.items = [k \in 1..Len(rows) |-> ListItem(rows[k])]]
  /\ UNCHANGED <<store, nextId, clock, disk, up, last, api>>

\* SELECT COUNT(*) FROM shapefiles, then res.json({data, pagination})
ListCount ==
  /\ ls.pc = "count"
  /\ ls' = [ls EXCEPT !.pc = "idle", !.status = 200, !.seen = {},
                      !.total = Cardinality(store),
                      !.totalPages = MathCeil(Cardinality(store), ls.limit)]
  /\ UNCHANGED <<store, nextId, clock, disk, up, last, api>>

\* either query rejects: 500
ListFail ==
  /\ ls' = [IdleList EXCEPT !.status = 500]
  /\ UNCHANGED <<store, nextId, clock, disk, up, last, api>>

(***************************************************************************)
(* POST /gee and POST /process-image                                       *)
(***************************************************************************)
\* req.body.type: absent, a string, or a JSON value that is no string
TypeInputs ==
  { <<"absent">>, <<"string", "ndvi">>, <<"string", "NDVI">>,
    <<"string", "rgb">>, <<"number", 7>> }
IsString(t) == t[1] = "string"
\* String.prototype.toUpperCase / toLowerCase on the strings tried
ToUpperCase(str) ==
  CASE str = "ndvi" -> "NDVI" [] str = "rgb" -> "RGB" [] OTHER -> str
ToLowerCase(str) ==
  CASE str = "NDVI" -> "ndvi" [] str = "RGB" -> "rgb" [] OTHER -> str
\* the keys of SUPPORTED_INDICES and the entries of VALID_TYPES
SupportedIndices == {"NDVI", "NDWI", "NDBI"}
ValidTypes == {"ndvi", "ndbi", "ndwi"}

\* res.status(st).json(...): one more response on the request
Respond(a, st) == [a EXCEPT !.pc = "done", !.status = st, !.responses = @ + 1]
\* an exception leaves the async handler: its promise is rejected
Reject(a) == [a EXCEPT !.pc = "rejected", !.thrown = TRUE]
NewApi(ep, type, id) == [IdleApi EXCEPT !.ep = ep, !.type = type, !.id = id]

\* POST /gee up to its query.  type.toUpperCase() on a value that is no
\* string throws in the try block; the catch block reads transactionId,
\* which is declared inside the try block, and throws in its turn
GeeReceive(type, id) ==
  /\ api.pc \in {"idle", "done"}
  /\ LET a == NewApi("gee", type, id)
     IN  IF type = <<"absent">>
         THEN api' = Respond(a, 400)
         ELSE IF ~IsString(type)
              THEN api' = Reject(a)
              ELSE IF ToUpperCase(type[2]) \notin SupportedIndices \/ id = 0
                   THEN api' = Respond(a, 400)
                   ELSE api' = [a EXCEPT !.pc = "query"]
  /\ UNCHANGED <<store, nextId, clock, disk, up, last, ls>>

\* SELECT ST_AsGeoJSON(geom) ... WHERE id = $1, then 404 or the script
GeeQuery ==
  /\ api.ep = "gee" /\ api.pc = "query"
  /\ IF \E row \in store : row.id = api.id
     THEN api' = Respond(api, 200)
     ELSE api' = Respond(api, 404)
  /\ UNCHANGED <<store, nextId, clock, disk, up, last, ls>>

\* pool.query rejects: the catch block throws as above
GeeQueryFail ==
  /\ api.ep = "gee" /\ api.pc = "query"
  /\ api' = Reject(api)
  /\ UNCHANGED <<store, nextId, clock, disk, up, last, ls>>

\* POST /process-image up to its query: the parameter checks are outside
\* the try block, so type.toLowerCase() on a value that is no string
\* throws out of the handler
ProcessReceive(url, type, id) ==
  /\ api.pc \in {"idle", "done"}
  /\ LET a == NewApi("process", type, id)
     IN  IF ~url \/ type = <<"absent">> \/ id = 0
         THEN api' = Respond(a, 400)
         ELSE IF ~IsString(type)
              THEN api' = Reject(a)
              ELSE IF ToLowerCase(type[2]) \notin ValidTypes
                   THEN api' = Respond(a, 400)
                   ELSE api' = [a EXCEPT !.pc = "query"]
  /\ UNCHANGED <<store, nextId, clock, disk, up, last, ls>>

\* SELECT ST_AsGeoJSON(geom) ... WHERE id = $1: 404, or on to the download
\* of the image and the script
ProcessQuery ==
  /\ api.ep = "process" /\ api.pc = "query"
  /\ IF \E row \in store : row.id = api.id
     THEN api' = [api EXCEPT !.pc = "work"]
     ELSE api' = Respond(api, 404)
  /\ UNCHANGED <<store, nextId, clock, disk, up, last, ls>>

\* the query, the download, the script or the UPDATE fails inside the try
\* block: the catch block answers 500
ProcessFail ==
  /\ api.ep = "process" /\ api.pc \in {"query", "work"}
  /\ api' = Respond([api EXCEPT !.thrown = TRUE], 500)
  /\ UNCHANGED <<store, nextId, clock, disk, up, last, ls>>

\* JSONB a || b: NULL when a is NULL, else b's keys over a's
JsonbConcat(a, b) ==
  IF a.isNull THEN NullJson
  ELSE Obj({ p \in a.kv : \A q \in b.kv : q[1] # p[1] } \cup b.kv)
\* { previewUrl: `/data/${path.basename(previewPath)}` }
PreviewPatch == Obj({<<"previewUrl", "/data/preview.png">>})

\* UPDATE shapefiles SET metadata = metadata || $1 WHERE id = $2, then
\* res.download
ProcessFinish ==
  /\ api.ep = "process" /\ api.pc = "work"
  /\ api.id \notin LockedIds
  /\ store' = { IF row.id = api.id
                THEN [row EXCEPT !.metadata = JsonbConcat(@, PreviewPatch)]
                ELSE row : row \in store }
  /\ api' = Respond(api, 200)
  /\ UNCHANGED <<nextId, clock, disk, up, last, ls>>

\* the rejected promise of an async handler: a router that does not watch
\* the handler's promise lets it go and the request is never answered
RejectDropped ==
  /\ api.pc = "rejected"
  /\ api' = [api EXCEPT !.pc = "done"]
  /\ UNCHANGED <<store, nextId, clock, disk, up, last, ls>>

\* a router that forwards the rejection calls the application's error
\* handler: res.status(500).json({error: "Internal server error"})
RejectForwarded ==
  /\ api.pc = "rejected"
  /\ api' = Respond(api, 500)
  /\ UNCHANGED <<store, nextId, clock, disk, up, last, ls>>

(***************************************************************************)
(* GET /preview/:shapefileId                                               *)
(***************************************************************************)
\* metadata->>'previewUrl': the text under the key, SQL NULL (here "", as
\* falsy as NULL is to the handler) when metadata is NULL or has no such key
PreviewUrlOf(md) ==
  IF md.isNull \/ ~\E p \in md.kv : p[1] = "previewUrl"
  THEN ""
  ELSE (CHOOSE p \in md.kv : p[1] = "previewUrl")[2]
\* what the handler answers on table S: 404 when there is no row or no
\* preview_url, else 200 with the previewUrl
PreviewResponse(S, id) ==
  IF \E row \in S : row.id = id /\ PreviewUrlOf(row.metadata) # ""
  THEN [status |-> 200,
        previewUrl |-> PreviewUrlOf((CHOOSE row \in S : row.id = id).metadata)]
  ELSE [status |-> 404, previewUrl |-> ""]

Preview(id) ==
  /\ last' = [op |-> "preview", status |-> PreviewResponse(store, id).status]
  /\ UNCHANGED <<store, nextId, clock, disk, up, ls, api>>

(***************************************************************************)
(* Specifications.                                                         *)
(***************************************************************************)
\* One upload request at a time, every input and every failure of it.
Next ==
  \/ \E fs \in FileLists, nm \in Names : Receive(1, fs, nm)
  \/ \E recs \in Datasets : Parse(1, recs)
  \/ ParseFail(1)
  \/ ConnectFail(1)
  \/ HandlerStep(1)
  \/ Close(1)

Spec == Init /\ [][Next]_vars

\* Two upload requests of one name in flight on their own connections,
\* one after the other or together, each slot taking request after request.
RaceFiles == { <<".shp", ".shx", ".dbf">> }
RaceNames == {"a.shp"}
RaceDatasets == { d \in Datasets : d # <<>> /\ \A k \in 1..Len(d) : d[k].geometry = GeomLine }

NextRace ==
  \E r \in Req :
     \/ \E fs \in RaceFiles, nm \in RaceNames : Receive(r, fs, nm)
     \/ \E recs \in RaceDatasets : Parse(r, recs)
     \/ HandlerStep(r)
     \/ DeleteResume(r)
     \/ Close(r)

SpecRace == Init /\ [][NextRace]_vars

\* Two upload requests of either name, and renames of rows by PUT /:id.
NextRename ==
  \/ \E r \in Req :
        \/ \E fs \in RaceFiles, nm \in Names : Receive(r, fs, nm)
        \/ \E recs \in RaceDatasets : Parse(r, recs)
        \/ HandlerStep(r)
  \/ \E id \in 1..MaxId, nm \in Names : Put(id, nm, NullJson)

SpecRename == Init /\ [][NextRename]_vars

\* the steps of an upload whose statements all succeed
UploadStep(r) ==
  \/ \E nm \in Names : Receive(r, <<".shp", ".shx", ".dbf">>, nm)
  \/ \E recs \in RaceDatasets : Parse(r, recs)
  \/ Begin(r)
  \/ Delete(r)
  \/ Insert(r)
  \/ Commit(r)

\* One upload request at a time next to updates and deletions by id.
NextGateway ==
  \/ UploadStep(1)
  \/ \E id \in 1..MaxId, nm \in PutNames, md \in PutMetas : Put(id, nm, md)
  \/ PutFail
  \/ \E id \in 1..MaxId : DeleteById(id)

SpecGateway == Init /\ [][NextGateway]_vars

\* Upload after upload next to listings.
NextList ==
  \/ UploadStep(1)
  \/ Close(1)
  \/ \E page \in 1..MaxPage, limit \in 1..MaxLimit : ListSelect(page, limit)
  \/ ListCount
  \/ ListFail

SpecList == Init /\ [][NextList]_vars

\* One upload request next to the export and processing requests.
NextApi ==
  \/ UploadStep(1)
  \/ \E type \in TypeInputs, id \in 0..MaxId : GeeReceive(type, id)
  \/ GeeQuery
  \/ GeeQueryFail
  \/ \E url \in BOOLEAN, type \in TypeInputs, id \in 0..MaxId : ProcessReceive(url, type, id)
  \/ ProcessQuery
  \/ ProcessFail
  \/ ProcessFinish
  \/ RejectDropped
  \/ RejectForwarded

SpecApi == Init /\ [][NextApi]_vars

\* One upload request of any dataset next to updates by id, image
\* processing requests with well-formed bodies, and preview requests.
NextProcess ==
  \/ \E nm \in RaceNames : Receive(1, <<".shp", ".shx", ".dbf">>, nm)
  \/ \E recs \in Datasets : Parse(1, recs)
  \/ Begin(1)
  \/ Delete(1)
  \/ Insert(1)
  \/ Commit(1)
  \/ \E id \in 1..MaxId, md \in {NullJson, PropsPut} : Put(id, "b.shp", md)
  \/ \E id \in 1..MaxId : ProcessReceive(TRUE, <<"string", "ndvi">>, id)
  \/ ProcessQuery
  \/ ProcessFail
  \/ ProcessFinish
  \/ \E id \in 1..MaxId : Preview(id)

SpecProcess == Init /\ [][NextProcess]_vars

(***************************************************************************)
(* Properties.                                                             *)
(***************************************************************************)
\* the request's transaction has begun and neither COMMIT nor ROLLBACK ran
TxOpen(r) == up[r].pc \in {"delete", "deleteWait", "insert", "commit", "rollback"}
\* the rows of S a transaction inserted: it stamps them with its NOW()
RowsOfTx(S, t) == { row \in S : row.created_at = t }
\* the rows of the DELETE's snapshot that are still there under the name
StillNamed(r) == { row \in store : row.name = up[r].name /\ row.id \in up[r].snap }

\* C1 (upload is all-or-nothing for readers).  While an upload's transaction
\* is open the committed table shows none of its rows and still shows every
\* row it deleted; COMMIT is reached only with the DELETE done and one row
\* inserted per feature; and the only step of a request that changes the
\* committed table is its COMMIT, which removes every deleted row and adds
\* every inserted row at once.
C1_NothingVisibleBeforeCommit ==
  \A r \in Req : TxOpen(r) =>
     /\ RowsOfTx(store, up[r].txid) = {}
     /\ up[r].deleted \subseteq store
     /\ up[r].pc = "commit" =>
          /\ Len(up[r].pending) = Len(up[r].features)
          /\ StillNamed(r) \subseteq up[r].deleted

C1_CommitStep ==
  \A r \in Req : up'[r] # up[r] =>
     \/ store' = store
     \/ /\ up[r].pc = "commit"
        /\ up'[r].status = 201
        /\ store' \cap up[r].deleted = {}
        /\ RowsOfTx(store', up[r].txid) = Range(up[r].pending)
        /\ Cardinality(Range(up[r].pending)) = Len(up[r].features)
        /\ store' \ Range(up[r].pending) = store \ up[r].deleted

C1_AllOrNothing == [](C1_NothingVisibleBeforeCommit) /\ [][C1_CommitStep]_vars

\* C1 witness: an upload of two features has committed over rows of its
\* name, which are gone, and both of its rows are in the table.
C1_Witness ==
  \E r \in Req :
     /\ up[r].status = 201
     /\ up[r].count = 2
     /\ up[r].deleted # {}
     /\ up[r].deleted \cap store = {}
     /\ Cardinality(RowsOfTx(store, up[r].txid)) = 2

\* r's DELETE removed a row that q's transaction inserted
DeletedRowsOf(r, q) ==
  /\ up[q].txid # 0
  /\ \E row \in up[r].deleted : row.created_at = up[q].txid
\* both requests of one name were in flight together and both committed
RacedAndCommitted(r, q) ==
  /\ r # q
  /\ up[r].status = 201 /\ up[q].status = 201
  /\ up[r].name = up[q].name
  /\ up[r].overlap /\ up[q].overlap

CommitStepOf(r) == up[r].pc = "commit" /\ up'[r].status = 201
\* what replace-on-reupload promises of that step: under the name there are
\* exactly the rows the upload inserted, no row that bore the name before
\* is left, and the rows of other names are as they were
ReplacedByName(r) ==
  /\ NamedRows(store', up[r].name) = Range(up[r].pending)
  /\ NamedRows(store, up[r].name) \cap store' = {}
  /\ store' \ NamedRows(store', up[r].name) = store \ NamedRows(store, up[r].name)

\* C2 (replace-on-reupload), as amended.  When an upload commits and, while
\* it was in flight, no other upload of its name was in flight and no
\* PUT /:id gave its name to a row after its DELETE, the rows of that name
\* are exactly the rows it inserted and the other rows are untouched.
C2_ReplaceOnReupload ==
  [][\A r \in Req :
       (CommitStepOf(r) /\ ~up[r].overlap /\ ~up[r].renamed) => ReplacedByName(r)]_vars

\* C2 witness: an upload that raced with nothing has committed over older
\* rows of its name; only its own rows bear the name and a row of another
\* name is still there.
C2_Witness ==
  \E r \in Req :
     /\ up[r].status = 201 /\ ~up[r].overlap /\ ~up[r].renamed
     /\ up[r].deleted # {}
     /\ NamedRows(store, up[r].name) = RowsOfTx(store, up[r].txid)
     /\ NamedRows(store, up[r].name) # {}
     /\ store \ NamedRows(store, up[r].name) # {}

\* C2 as claimed: no other upload of the same name overlapping is enough.
C2_Original ==
  [][\A r \in Req : (CommitStepOf(r) /\ ~up[r].overlap) => ReplacedByName(r)]_vars

\* the records of a dataset that carry a geometry: how many, and the k-th
NonNullCount(recs) == Cardinality({ k \in 1..Len(recs) : recs[k].geometry # Null })
NonNullIndex(recs, j) ==
  CHOOSE k \in 1..Len(recs) :
    /\ recs[k].geometry # Null
    /\ Cardinality({ m \in 1..k : recs[m].geometry # Null }) = j
\* the row with the j-th smallest id of a set of rows
RowAt(rows, j) ==
  CHOOSE row \in rows : Cardinality({ o \in rows : o.id <= row.id }) = j

\* C3 (rows persisted by a successful upload).  When an upload of a dataset
\* with N >= 1 records that have a geometry commits, it has put exactly N
\* rows under the dataset name, the j-th of them by id holds the geometry of
\* the j-th such record, the response reports count = N, and every row has a geom and a
\* bbox that is the envelope of its geom.
C3_RowsPersisted ==
  [][\A r \in Req :
       CommitStepOf(r) =>
         LET N == NonNullCount(up[r].records)
             rows == RowsOfTx(store', up'[r].txid)
         IN  /\ N >= 1
             /\ rows \subseteq NamedRows(store', up[r].name)
             /\ Cardinality(rows) = N
             /\ up'[r].count = N
             /\ \A j \in 1..N :
                  RowAt(rows, j).geom = up[r].records[NonNullIndex(up[r].records, j)].geometry
             /\ \A row \in rows :
                  /\ row.geom # Null
                  /\ row.bbox # Null
                  /\ row.bbox = ST_Envelope(row.geom)]_vars

\* C3 witness: a dataset with a record without geometry and one with a line
\* has been uploaded; one row bears its name, with the line's envelope.
C3_Witness ==
  \E r \in Req :
     /\ up[r].status = 201
     /\ \E k \in 1..Len(up[r].records) : up[r].records[k].geometry = Null
     /\ up[r].count = 1
     /\ \E row \in store :
          /\ NamedRows(store, up[r].name) = {row}
          /\ row.geom = GeomLine
          /\ row.bbox = <<0, 1, 3, 2>>

\* the request ended after a statement of its transaction failed
FailedInTx(r) == up[r].pc = "done" /\ up[r].failed /\ up[r].txid # 0

C5_NoFileLeft ==
  \A r \in Req : up[r].pc = "done" => FilesOf(r) \cap disk = {}

\* the request supplies the three required files
RequiredFiles == {".shp", ".shx", ".dbf"}
HasRequired(fs) == RequiredFiles \subseteq Range(fs)

\* C9 (required files).  A request whose files lack one of .shp, .shx and
\* .dbf is answered 400 and goes no further.
C9_MissingFileRejected ==
  \A r \in Req :
     (up[r].files # <<>> /\ ~HasRequired(up[r].files)) =>
        (up[r].pc = "done" /\ up[r].status = 400)
\* the rows with a given id, and the rows with any other id
RowsWithId(S, id) == { row \in S : row.id = id }
RowsBesides(S, id) == { row \in S : row.id # id }

\* what a PUT /:id step with body fields nm (name) and md (metadata) does
PutEffect(id, nm, md) ==
  LET hasName == nm # ""
      hasMeta == ~md.isNull
      old == RowsWithId(store, id)
      new == RowsWithId(store', id)
  IN  /\ RowsBesides(store', id) = RowsBesides(store, id)
      /\ (~hasName /\ ~hasMeta) => (last'.status = 400 /\ store' = store)
      /\ ((hasName \/ hasMeta) /\ old = {}) => (last'.status = 404 /\ store' = store)
      /\ ((hasName \/ hasMeta) /\ old # {}) =>
           \E o \in old, n \in new :
              /\ old = {o} /\ new = {n}
              /\ last'.status = 200
              /\ n.geom = o.geom /\ n.bbox = o.bbox /\ n.created_at = o.created_at
              /\ n.updated_at > o.updated_at
              /\ (hasMeta /\ ~hasName) => (n.metadata = md /\ n.name = o.name)
              /\ (hasName /\ ~hasMeta) => (n.metadata = o.metadata /\ n.name = nm)

\* C7 (PUT /:id).  A request with neither name nor metadata gets 400 and
\* changes no row; one for an absent id gets 404 and changes no row; one
\* with only metadata on an existing id replaces the row's metadata, keeps
\* name, geom, bbox and created_at and sets updated_at to a later time; one
\* with only name keeps metadata, geom, bbox and created_at; no row with
\* another id is changed.
C7_PutFrame ==
  [][\A id \in 1..MaxId, nm \in PutNames, md \in PutMetas :
       Put(id, nm, md) => PutEffect(id, nm, md)]_vars

\* C7 witness: a PUT with only metadata has answered 200; the row holds the
\* new metadata under its old name, stamped later than its creation, next
\* to another row that is as it was inserted.
C7_Witness ==
  /\ last = [op |-> "put", status |-> 200]
  /\ \E row \in store, other \in store :
        /\ row.metadata = PropsPut
        /\ row.name = other.name
        /\ row.updated_at > row.created_at
        /\ other.id # row.id
        /\ other.updated_at = other.created_at
        /\ other.metadata = PropsA

\* the least number of pages of the given size that hold T rows
PagesFor(T, limit) == CHOOSE n \in 0..T : n * limit >= T /\ \A m \in 0..T : m * limit >= T => n <= m
\* the listing step that sends the response
ListAnswerStep == ls.pc = "count" /\ ls'.status = 200
\* items are, in order, the rows of S at positions offset+1, offset+2, ...
\* of an order of S by descending creation time
IsPageOf(items, S, offset) ==
  /\ \A k \in 1..Len(items) :
        /\ \E row \in S : items[k] = ListItem(row)
        /\ Cardinality({ row \in S : row.created_at > items[k].created_at }) <= offset + k - 1
        /\ Cardinality({ row \in S : row.created_at >= items[k].created_at }) >= offset + k
  /\ \A j, k \in 1..Len(items) : j < k => items[j].id # items[k].id

\* C8 (list pagination), as amended.  The items returned are the rows at
\* positions (page-1)*limit+1 ... of the store as it was at the SELECT, in
\* descending creation order, min(limit, max(0, T1 - (page-1)*limit)) of
\* them for the T1 rows it held then; total is the number T2 of rows at the
\* COUNT and totalPages is ceil(T2 / limit); the listing changes no row.
C8_ListPage ==
  [][(ListAnswerStep =>
        LET T1 == Cardinality(ls.seen)
            T2 == Cardinality(store)
            offset == (ls.page - 1) * ls.limit
        IN  /\ Len(ls'.items) = Min({ls.limit, Max({0, T1 - offset})})
            /\ IsPageOf(ls'.items, ls.seen, offset)
            /\ ls'.total = T2
            /\ ls'.totalPages = PagesFor(T2, ls.limit))
     /\ (ls' # ls => (store' = store /\ up' = up))]_vars

\* C8 witness: page 2 of size 2 of a store of three rows that did not
\* change during the request: one item, total 3, two pages.
C8_Witness ==
  /\ ls.status = 200 /\ ls.page = 2 /\ ls.limit = 2
  /\ Cardinality(store) = 3
  /\ ls.total = 3 /\ ls.totalPages = 2
  /\ Len(ls.items) = 1
  /\ \E row \in store :
        /\ ls.items[1] = ListItem(row)
        /\ \A o \in store : o.created_at >= row.created_at

\* C8 as claimed: one number T of rows accounts for the items and the total.
C8_Original ==
  [][ListAnswerStep =>
       LET T == ls'.total
           offset == (ls.page - 1) * ls.limit
       IN  /\ Len(ls'.items) = Min({ls.limit, Max({0, T - offset})})
           /\ ls'.totalPages = PagesFor(T, ls.limit)]_vars

\* C6 (every request is answered once).  A request whose handling has ended
\* got exactly one response, and a 500 if a failure was raised.
C6_OneResponse ==
  api.pc = "done" => (api.responses = 1 /\ (api.thrown => api.status = 500))

\* the step is the metadata write of process-image landing on a row
PreviewWriteStep(row) ==
  /\ api.ep = "process" /\ api.pc = "work" /\ api'.status = 200
  /\ row \in store /\ row.id = api.id

\* C11 (preview merge-patch).  When the metadata write of process-image has
\* succeeded on an existing row, the row's metadata holds the written
\* previewUrl and every key it held before, its name, geom and bbox are as
\* before, and GET /preview/:id on the table answers 200 with that
\* previewUrl.
C11_PreviewMerged ==
  [][\A row \in store :
       PreviewWriteStep(row) =>
         \E new \in store' :
            /\ new.id = row.id
            /\ ~new.metadata.isNull
            /\ PreviewPatch.kv \subseteq new.metadata.kv
            /\ \A p \in row.metadata.kv : \E q \in new.metadata.kv : q[1] = p[1]
            /\ new.name = row.name /\ new.geom = row.geom /\ new.bbox = row.bbox
            /\ PreviewResponse(store', row.id) =
                 [status |-> 200, previewUrl |-> "/data/preview.png"]]_vars

\* C12 (timestamps).  No step changes a row's created_at, and every step
\* that changes a row sets its updated_at to a later time.
C12_Timestamps ==
  [][\A row \in store : \A new \in store' :
       (new.id = row.id /\ new # row) =>
          (new.created_at = row.created_at /\ new.updated_at > row.updated_at)]_vars

=============================================================================
